---- MODULE Spec2Model ----
(***************************************************************************)
(* Model of the command-line argument parser of sharc (src/args.rs).       *)
(*                                                                         *)
(* A string is a sequence of one-character strings, so that starts_with,   *)
(* chars().skip(1) and string equality are computed as the code computes   *)
(* them.  Args::parse is a state machine: one step of its `while let`      *)
(* loop, one iteration of the `for` loop of Args::handle_arg, the drain    *)
(* loop and the return are the actions.  exit(..) ends the run in          *)
(* pc = "exited".                                                          *)
(***************************************************************************)
EXTENDS Integers, Sequences, FiniteSets, TLC

\* ------------------------------------------------------------------ bounds
\* Longest argument list over CoreTokens, and over the whole of Tokens.
MaxLen == 3
MaxWideLen == 2

\* ----------------------------------------------------------------- strings
\* The literals of the match in handle_arg.
s_h == <<"-", "h">>
s_help == <<"-", "-", "h", "e", "l", "p">>
s_V == <<"-", "V">>
s_version == <<"-", "-", "v", "e", "r", "s", "i", "o", "n">>
s_d == <<"-", "d">>
s_debug == <<"-", "-", "d", "e", "b", "u", "g">>
s_f == <<"-", "f">>
s_file == <<"-", "-", "f", "i", "l", "e">>
s_o == <<"-", "o">>
s_output == <<"-", "-", "o", "u", "t", "p", "u", "t">>
s_l == <<"-", "l">>
s_error_level == <<"-", "-", "e", "r", "r", "o", "r", "-", "l", "e", "v", "e", "l">>
s_no_context == <<"-", "-", "n", "o", "-", "c", "o", "n", "t", "e", "x", "t">>

\* The literal of the banner branch of parse.
s_shark == <<"s", "h", "a", "r", "k">>

\* The defaults of Args::default.
s_main_shd == <<"m", "a", "i", "n", ".", "s", "h", "d">>
s_main_asm == <<"m", "a", "i", "n", ".", "a", "s", "m">>

\* The level literals of the match on the pulled value.
s_lf == <<"f">>
s_fatal == <<"f", "a", "t", "a", "l">>
s_le == <<"e">>
s_error == <<"e", "r", "r", "o", "r">>
s_lw == <<"w">>
s_warn == <<"w", "a", "r", "n">>
s_ln == <<"n">>
s_note == <<"n", "o", "t", "e">>
s_ls == <<"s">>
s_silent == <<"s", "i", "l", "e", "n", "t">>

\* Other argument tokens of the bounded inputs.
s_dash == <<"-">>
s_dashdash == <<"-", "-">>
s_dd == <<"-", "d", "d">>
s_dh == <<"-", "d", "h">>
s_df == <<"-", "d", "f">>
s_fo == <<"-", "f", "o">>
s_od == <<"-", "o", "d">>
s_ld == <<"-", "l", "d">>
s_dl == <<"-", "d", "l">>
s_dx == <<"-", "d", "x">>
s_hx == <<"-", "h", "x">>
s_x == <<"-", "x">>
s_v == <<"-", "v">>
s_bogusflag == <<"-", "-", "b", "o", "g", "u", "s">>
s_ddf == <<"-", "-", "f">>
s_Debug == <<"-", "-", "D", "e", "b", "u", "g">>
s_dddh == <<"-", "-", "d", "h">>
s_ddd == <<"-", "-", "d">>
s_build == <<"b", "u", "i", "l", "d">>
s_run == <<"r", "u", "n">>
s_a_shd == <<"a", ".", "s", "h", "d">>
s_xval == <<"x">>
s_sharks == <<"s", "h", "a", "r", "k", "s">>
s_Shark == <<"S", "h", "a", "r", "k">>
s_bogus == <<"b", "o", "g", "u", "s">>
s_Fatal == <<"F", "a", "t", "a", "l">>
s_F == <<"F">>
s_empty == <<>>

CoreTokens ==
    { s_d, s_debug, s_f, s_file, s_o, s_l, s_no_context, s_h,
      s_df, s_fo, s_dd, s_dx, s_dash,
      s_build, s_run, s_a_shd, s_shark, s_lf }

Tokens ==
    CoreTokens \cup
    { s_help, s_V, s_version, s_output, s_error_level,
      s_dh, s_od, s_ld, s_dl, s_hx, s_x, s_v,
      s_bogusflag, s_dashdash, s_ddf, s_Debug, s_dddh, s_ddd,
      s_xval, s_sharks, s_Shark, s_bogus, s_Fatal, s_F, s_empty,
      s_fatal, s_le, s_error, s_lw, s_warn, s_ln, s_note, s_ls, s_silent }

SeqsUpTo(S, n) == UNION { [1..k -> S] : k \in 0..n }

\* The argument lists of the documented examples that are longer than MaxLen.
Examples ==
    { <<s_f, s_a_shd, s_build, s_run>>,
      <<s_f, s_a_shd, s_file, s_build>>,
      <<s_l, s_lf, s_error_level, s_bogus>> }

Inputs ==
    SeqsUpTo(CoreTokens, MaxLen) \cup SeqsUpTo(Tokens, MaxWideLen) \cup Examples

\* str::starts_with
starts_with(s, prefix) ==
    /\ Len(s) >= Len(prefix)
    /\ SubSeq(s, 1, Len(prefix)) = prefix

\* ------------------------------------------------------------------- state
VARIABLES
    arguments,  \* the Vec<String> given to parse
    pos,        \* how many items the shared IntoIter has yielded
    out,        \* the Args under construction
    pc,         \* "scan" | "handle" | "drain" | "done" | "exited"
    args,       \* handle_arg: the expanded group
    i,          \* handle_arg: the index of the for loop (0-based)
    exit_code,  \* the code given to exit, -1 while running
    exit_kind,  \* which exit was taken, "none" while running
    reports,    \* how many times error! has built its report
    pulled,     \* history: indices of arguments taken by arguments.next() in handle_arg
    assigned    \* history: fields whose value try_mut has stored

vars ==
    <<arguments, pos, out, pc, args, i, exit_code, exit_kind, reports,
      pulled, assigned>>

State ==
    [ pos |-> pos, out |-> out, pc |-> pc, args |-> args, i |-> i,
      exit_code |-> exit_code, exit_kind |-> exit_kind, reports |-> reports,
      pulled |-> pulled, assigned |-> assigned ]

SetState(s) ==
    /\ pos' = s.pos
    /\ out' = s.out
    /\ pc' = s.pc
    /\ args' = s.args
    /\ i' = s.i
    /\ exit_code' = s.exit_code
    /\ exit_kind' = s.exit_kind
    /\ reports' = s.reports
    /\ pulled' = s.pulled
    /\ assigned' = s.assigned
    /\ UNCHANGED arguments

\* ------------------------------------------------------------------ Arg<T>
Arg_new(default) == [value |-> default, set |-> FALSE]

\* Faulty variant: the code-context default is off.
Args_default_m ==
    [ file |-> Arg_new(s_main_shd),
      output |-> Arg_new(s_main_asm),
      debug |-> Arg_new(FALSE),
      code_context |-> Arg_new(FALSE),
      level |-> Arg_new("Warn"),
      verbs |-> <<>> ]

Args_default ==
    [ file |-> Arg_new(s_main_shd),
      output |-> Arg_new(s_main_asm),
      debug |-> Arg_new(FALSE),
      code_context |-> Arg_new(TRUE),
      level |-> Arg_new("Warn"),
      verbs |-> <<>> ]

\* exit(code): the process ends; kind names the branch that ended it.
exit(s, code, kind) ==
    [s EXCEPT !.pc = "exited", !.exit_code = code, !.exit_kind = kind]

\* Faulty variant: the error is reported and parsing goes on.
error_m(s, kind) == [s EXCEPT !.reports = @ + 1, !.exit_kind = kind]

\* error!(..): report, then exit(1).  kind names the message:
\*   "'{}' may only be used once"                  DuplicateFlag
\*   "{} may only be used at the end of a group"   GroupPositionError
\*   "{arg} expected FILE" / "expected file" / "expected level"  MissingValue
\*   "invalid level `{level}`"                     InvalidValue
\*   "unrecognized argument {arg}"                 UnrecognizedArgument
error(s, kind) == exit([s EXCEPT !.reports = @ + 1], 1, kind)

\* Arg::try_mut: exits when self.set, else stores the value.  The code never
\* writes self.set.
try_mut(s, field, value) ==
    IF s.out[field].set
    THEN error(s, "DuplicateFlag")
    ELSE [s EXCEPT !.out[field].value = value,
                   !.assigned = @ \cup {field}]

\* ------------------------------------------------------------- handle_arg
\* Faulty variant: the letters of a group come out in reverse order.
Expand_m(argument) ==
    IF starts_with(argument, <<"-", "-">>)
    THEN <<argument>>
    ELSE [k \in 1..(Len(argument) - 1) |->
            <<"-", argument[Len(argument) + 1 - k]>>]

\* Faulty variant: a double-dash token is split into letters as well.
Expand_split_m(argument) ==
    [k \in 1..(Len(argument) - 1) |-> <<"-", argument[k + 1]>>]

\* Faulty variant: the leading dash is not skipped.
Expand_noskip_m(argument) ==
    IF starts_with(argument, <<"-", "-">>)
    THEN <<argument>>
    ELSE [k \in 1..Len(argument) |-> <<"-", argument[k]>>]

\* The expansion of one dash-prefixed argument into the group `args`.
Expand(argument) ==
    IF starts_with(argument, <<"-", "-">>)
    THEN <<argument>>
    ELSE [k \in 1..(Len(argument) - 1) |-> <<"-", argument[k + 1]>>]

\* Faulty variant: every position counts as the end of the group.
is_end_m(s) == TRUE

is_end(s) == s.i = Len(s.args) - 1

\* Faulty variant: "w" is taken for Note, and "F" is accepted.
ParseLevel_m(level) ==
    CASE level \in {s_lf, s_fatal, s_F} -> "Fatal"
      [] level \in {s_le, s_error} -> "Error"
      [] level \in {s_warn} -> "Warn"
      [] level \in {s_ln, s_note, s_lw} -> "Note"
      [] level \in {s_ls, s_silent} -> "Silent"
      [] OTHER -> "invalid"

\* The match on the pulled level string; "invalid" is the `_` arm.
ParseLevel(level) ==
    CASE level \in {s_lf, s_fatal} -> "Fatal"
      [] level \in {s_le, s_error} -> "Error"
      [] level \in {s_lw, s_warn} -> "Warn"
      [] level \in {s_ln, s_note} -> "Note"
      [] level \in {s_ls, s_silent} -> "Silent"
      [] OTHER -> "invalid"

\* Faulty variant: the value is peeked at and left in the stream.
next_value_m(s) ==
    [s EXCEPT !.pulled = @ \cup {s.pos + 1}]

\* arguments.next() inside handle_arg: the shared cursor advances.
next_value(s) ==
    [s EXCEPT !.pos = @ + 1, !.pulled = @ \cup {s.pos + 1}]

\* Faulty variant: a missing value is ignored and the default kept.
arm_path_m(a, s, field) ==
    IF ~is_end(s) THEN error(s, "GroupPositionError")
    ELSE IF s.pos >= Len(a) THEN s
    ELSE try_mut(next_value(s), field, a[s.pos + 1])

\* The arms "-f" | "--file" and "-o" | "--output".
arm_path(a, s, field) ==
    IF ~is_end(s) THEN error(s, "GroupPositionError")
    ELSE IF s.pos >= Len(a) THEN error(s, "MissingValue")
    ELSE try_mut(next_value(s), field, a[s.pos + 1])

\* Faulty variant: the value is looked for before the group position.
arm_level_m(a, s) ==
    IF s.pos >= Len(a) THEN error(s, "MissingValue")
    ELSE IF ~is_end(s) THEN error(s, "GroupPositionError")
    ELSE IF ParseLevel(a[s.pos + 1]) = "invalid"
         THEN error(next_value(s), "InvalidValue")
         ELSE try_mut(next_value(s), "level", ParseLevel(a[s.pos + 1]))

\* The arm "-l" | "--error-level".
arm_level(a, s) ==
    IF ~is_end(s) THEN error(s, "GroupPositionError")
    ELSE IF s.pos >= Len(a) THEN error(s, "MissingValue")
    ELSE IF ParseLevel(a[s.pos + 1]) = "invalid"
         THEN error(next_value(s), "InvalidValue")
         ELSE try_mut(next_value(s), "level", ParseLevel(a[s.pos + 1]))

\* Faulty variant: -h prints the usage and parsing goes on.
arm_usage_m(s) == s

\* The arm "-h".
arm_usage(s) == exit(s, 0, "Usage")

\* Faulty variant: an unknown flag is ignored.
arm_unrecognized_m(s) == s

\* The arm `_`.
arm_unrecognized(s) == error(s, "UnrecognizedArgument")

\* The match on one expanded token.
match_arg(a, s) ==
    LET arg == s.args[s.i + 1] IN
    CASE arg = s_h -> arm_usage(s)
      [] arg = s_help -> exit(s, 0, "Help")
      [] arg \in {s_V, s_version} -> exit(s, 0, "Version")
      [] arg \in {s_d, s_debug} -> try_mut(s, "debug", TRUE)
      [] arg \in {s_f, s_file} -> arm_path(a, s, "file")
      [] arg \in {s_o, s_output} -> arm_path(a, s, "output")
      [] arg \in {s_l, s_error_level} -> arm_level(a, s)
      [] arg = s_no_context -> try_mut(s, "code_context", FALSE)
      [] OTHER -> arm_unrecognized(s)

\* Faulty variant: the loop index does not advance.
handle_iter_m(a, s) == match_arg(a, s)

\* One iteration of the for loop: the match, then on to the next index.
handle_iter(a, s) ==
    LET t == match_arg(a, s) IN
    IF t.pc = "exited" THEN t ELSE [t EXCEPT !.i = @ + 1]

\* The for loop is over: handle_arg returns, parse continues its scan.
handle_return(s) == [s EXCEPT !.pc = "scan", !.args = <<>>, !.i = 0]

\* ------------------------------------------------------------------ parse
\* Faulty variant: a verb is put in front of the earlier ones.
scan_step_m(a, s) ==
    IF s.pos >= Len(a) THEN [s EXCEPT !.pc = "drain"]
    ELSE LET arg == a[s.pos + 1]
             t == [s EXCEPT !.pos = @ + 1] IN
         IF starts_with(arg, <<"-">>)
         THEN [t EXCEPT !.pc = "handle", !.args = Expand(arg), !.i = 0]
         ELSE IF arg = s_shark THEN exit(t, 1, "Banner")
         ELSE [t EXCEPT !.out.verbs = <<arg>> \o @]

\* Faulty variant: the banner test ignores the case of the first letter.
scan_step_case_m(a, s) ==
    IF s.pos >= Len(a) THEN [s EXCEPT !.pc = "drain"]
    ELSE LET arg == a[s.pos + 1]
             t == [s EXCEPT !.pos = @ + 1] IN
         IF starts_with(arg, <<"-">>)
         THEN [t EXCEPT !.pc = "handle", !.args = Expand(arg), !.i = 0]
         ELSE IF arg \in {s_shark, s_Shark} THEN exit(t, 1, "Banner")
         ELSE [t EXCEPT !.out.verbs = Append(@, arg)]

\* Faulty variant: the scan loop stops one token early.
scan_step_early_m(a, s) ==
    IF s.pos >= Len(a) - 1 THEN [s EXCEPT !.pc = "drain"]
    ELSE LET arg == a[s.pos + 1]
             t == [s EXCEPT !.pos = @ + 1] IN
         IF starts_with(arg, <<"-">>)
         THEN [t EXCEPT !.pc = "handle", !.args = Expand(arg), !.i = 0]
         ELSE IF arg = s_shark THEN exit(t, 1, "Banner")
         ELSE [t EXCEPT !.out.verbs = Append(@, arg)]

\* One step of `while let Some(arg) = args.next()`.
scan_step(a, s) ==
    IF s.pos >= Len(a) THEN [s EXCEPT !.pc = "drain"]
    ELSE LET arg == a[s.pos + 1]
             t == [s EXCEPT !.pos = @ + 1] IN
         IF starts_with(arg, <<"-">>)
         THEN [t EXCEPT !.pc = "handle", !.args = Expand(arg), !.i = 0]
         ELSE IF arg = s_shark THEN exit(t, 1, "Banner")
         ELSE [t EXCEPT !.out.verbs = Append(@, arg)]

\* `for arg in args.by_ref()` and the return of out.
drain(a, s) ==
    [s EXCEPT !.out.verbs = @ \o SubSeq(a, s.pos + 1, Len(a)),
              !.pos = Len(a),
              !.pc = "done"]

\* One step of the parser from state s.
Step(a, s) ==
    CASE s.pc = "scan" -> scan_step(a, s)
      [] s.pc = "handle" /\ s.i < Len(s.args) -> handle_iter(a, s)
      [] s.pc = "handle" /\ s.i >= Len(s.args) -> handle_return(s)
      [] s.pc = "drain" -> drain(a, s)
      [] OTHER -> s

\* parse, run from state s to its end: a returned Args or an exit.
RECURSIVE Run(_, _)
Run(a, s) ==
    IF s.pc \in {"done", "exited"} THEN s ELSE Run(a, Step(a, s))

\* What the caller of parse observes: the returned Args, or the exit.
Outcome(s) ==
    IF s.pc = "done"
    THEN [kind |-> "returned", out |-> s.out, code |-> -1, exit |-> "none"]
    ELSE [kind |-> "exited", out |-> <<>>, code |-> s.exit_code, exit |-> s.exit_kind]

InitState ==
    [ pos |-> 0, out |-> Args_default, pc |-> "scan", args |-> <<>>, i |-> 0,
      exit_code |-> -1, exit_kind |-> "none", reports |-> 0,
      pulled |-> {}, assigned |-> {} ]

\* ---------------------------------------------------------------- actions
Init ==
    /\ arguments \in Inputs
    /\ pos = InitState.pos
    /\ out = InitState.out
    /\ pc = InitState.pc
    /\ args = InitState.args
    /\ i = InitState.i
    /\ exit_code = InitState.exit_code
    /\ exit_kind = InitState.exit_kind
    /\ reports = InitState.reports
    /\ pulled = InitState.pulled
    /\ assigned = InitState.assigned

NextArg == arguments[pos + 1]
CurArg == args[i + 1]

\* while let: the next argument starts with '-' and goes to handle_arg.
ScanFlag ==
    /\ pc = "scan" /\ pos < Len(arguments)
    /\ starts_with(NextArg, <<"-">>)
    /\ SetState(scan_step(arguments, State))

\* while let: the next argument is "shark".
ScanShark ==
    /\ pc = "scan" /\ pos < Len(arguments)
    /\ ~starts_with(NextArg, <<"-">>)
    /\ NextArg = s_shark
    /\ SetState(scan_step(arguments, State))

\* while let: the next argument is pushed to verbs.
ScanVerb ==
    /\ pc = "scan" /\ pos < Len(arguments)
    /\ ~starts_with(NextArg, <<"-">>)
    /\ NextArg # s_shark
    /\ SetState(scan_step(arguments, State))

\* while let: args.next() is None.
ScanEnd ==
    /\ pc = "scan" /\ pos >= Len(arguments)
    /\ SetState(scan_step(arguments, State))

\* handle_arg: the arms "-h", "--help", "-V" | "--version".
HandleImmediate ==
    /\ pc = "handle" /\ i < Len(args)
    /\ CurArg \in {s_h, s_help, s_V, s_version}
    /\ SetState(handle_iter(arguments, State))

\* handle_arg: the arms "-d" | "--debug" and "--no-context".
HandleToggle ==
    /\ pc = "handle" /\ i < Len(args)
    /\ CurArg \in {s_d, s_debug, s_no_context}
    /\ SetState(handle_iter(arguments, State))

\* handle_arg: the arms "-f" | "--file" and "-o" | "--output".
HandlePath ==
    /\ pc = "handle" /\ i < Len(args)
    /\ CurArg \in {s_f, s_file, s_o, s_output}
    /\ SetState(handle_iter(arguments, State))

\* handle_arg: the arm "-l" | "--error-level".
HandleLevel ==
    /\ pc = "handle" /\ i < Len(args)
    /\ CurArg \in {s_l, s_error_level}
    /\ SetState(handle_iter(arguments, State))

\* handle_arg: the arm `_`.
HandleUnrecognized ==
    /\ pc = "handle" /\ i < Len(args)
    /\ CurArg \notin {s_h, s_help, s_V, s_version, s_d, s_debug, s_no_context,
                      s_f, s_file, s_o, s_output, s_l, s_error_level}
    /\ SetState(handle_iter(arguments, State))

\* handle_arg: the for loop has run through the group.
HandleReturn ==
    /\ pc = "handle" /\ i >= Len(args)
    /\ SetState(handle_return(State))

\* parse: the drain loop and `out`.
Drain ==
    /\ pc = "drain"
    /\ SetState(drain(arguments, State))

Next ==
    \/ ScanFlag
    \/ ScanShark
    \/ ScanVerb
    \/ ScanEnd
    \/ HandleImmediate
    \/ HandleToggle
    \/ HandlePath
    \/ HandleLevel
    \/ HandleUnrecognized
    \/ HandleReturn
    \/ Drain

Spec == Init /\ [][Next]_vars

\* ============================================================== properties
\* Vocabulary of the properties, taken from the specification's tables.
OptionFields == {"file", "output", "debug", "code_context", "level"}
ValueFlags == {s_f, s_file, s_o, s_output, s_l, s_error_level}
ShortValueFlags == {s_f, s_o, s_l}
ImmediateFlags == {s_h, s_help, s_V, s_version}
Recognized ==
    ImmediateFlags \cup ValueFlags \cup {s_d, s_debug, s_no_context}

\* The option a spelling belongs to.
FieldOf(arg) ==
    CASE arg \in {s_d, s_debug} -> "debug"
      [] arg \in {s_f, s_file} -> "file"
      [] arg \in {s_o, s_output} -> "output"
      [] arg \in {s_l, s_error_level} -> "level"
      [] arg = s_no_context -> "code_context"
      [] OTHER -> "none"

\* The severity spellings of the specification, section 3.
SeveritySpellings ==
    { s_lf, s_fatal, s_le, s_error, s_lw, s_warn, s_ln, s_note, s_ls, s_silent }

SeverityOf(tok) ==
    CASE tok \in {s_lf, s_fatal} -> "Fatal"
      [] tok \in {s_le, s_error} -> "Error"
      [] tok \in {s_lw, s_warn} -> "Warn"
      [] tok \in {s_ln, s_note} -> "Note"
      [] tok \in {s_ls, s_silent} -> "Silent"

\* The dispatcher is about to handle the expanded token CurArg.
Dispatching == pc = "handle" /\ i < Len(args)
LastOfGroup == i = Len(args) - 1
HasNextRaw == pos < Len(arguments)

\* The step ends the process with this error and exit code 1.
ExitsWith(kind) ==
    /\ pc' = "exited"
    /\ exit_code' = 1
    /\ exit_kind' = kind

\* The step leaves every option field but f, and verbs, as they were.
OnlyFieldChanges(f) ==
    /\ \A g \in OptionFields \ {f} : out'[g] = out[g]
    /\ out'.verbs = out.verbs

\* ---------------------------------------------------------------------- C1
\* C1 (as claimed): when a flag is dispatched whose option an earlier flag
\* has already assigned, the step ends the process with exit code 1 and
\* leaves the stored value as it was; the error is DuplicateFlag whenever
\* the flag gets as far as try_mut.
C1_DuplicateRejected ==
    [][ (Dispatching /\ FieldOf(CurArg) \in assigned)
        => /\ pc' = "exited"
           /\ exit_code' = 1
           /\ out' = out
           /\ ( ( /\ CurArg \in ValueFlags => (LastOfGroup /\ HasNextRaw)
                  /\ (FieldOf(CurArg) = "level" /\ LastOfGroup /\ HasNextRaw)
                       => NextArg \in SeveritySpellings )
                => exit_kind' = "DuplicateFlag" ) ]_vars

\* ---------------------------------------------------------------------- C2
\* C2 (as claimed): in every state, a field's set flag is true exactly when
\* some dispatched flag has assigned that field.
C2_SetIffAssigned ==
    \A f \in OptionFields : out[f].set <=> (f \in assigned)

\* ---------------------------------------------------------------------- C3
\* C3 (as claimed): a short value flag that is not last in its group ends
\* the process with GroupPositionError without pulling a token; last in its
\* group with a raw token following, the process goes on and the flag's
\* field is assigned.
C3_Original ==
    [][ (Dispatching /\ CurArg \in ShortValueFlags)
        => IF ~LastOfGroup
           THEN ExitsWith("GroupPositionError") /\ pos' = pos /\ pulled' = pulled
           ELSE HasNextRaw
                => /\ pc' # "exited"
                   /\ FieldOf(CurArg) \in assigned' ]_vars

\* C3 (amended): a short value flag that is not last in its group ends the
\* process with GroupPositionError, pulls no token and changes no field.
\* Last in its group with a raw token following: -f and -o store that token
\* in their field; -l stores the severity the token spells, and ends the
\* process with InvalidValue when the token is no severity spelling.  The
\* fields set by the earlier letters of the group are kept.
C3_GroupPosition ==
    /\ [][ (Dispatching /\ CurArg \in ShortValueFlags)
           => IF ~LastOfGroup
              THEN /\ ExitsWith("GroupPositionError")
                   /\ pos' = pos /\ pulled' = pulled /\ out' = out
              ELSE HasNextRaw
                   => IF CurArg = s_l /\ NextArg \notin SeveritySpellings
                      THEN ExitsWith("InvalidValue") /\ out' = out
                      ELSE /\ pc' = "handle"
                           /\ pos' = pos + 1
                           /\ OnlyFieldChanges(FieldOf(CurArg))
                           /\ FieldOf(CurArg) \in assigned'
                           /\ out'[FieldOf(CurArg)].value =
                                IF CurArg = s_l THEN SeverityOf(NextArg)
                                ELSE NextArg ]_vars
    /\ []( (arguments = <<s_df, s_a_shd>> /\ pc = "done")
           => (out.debug.value = TRUE /\ out.file.value = s_a_shd) )
    /\ []( arguments = <<s_fo, s_a_shd>> /\ pc \in {"done", "exited"}
           => (exit_kind = "GroupPositionError" /\ pulled = {}) )

\* Witness: "-fo" has ended in GroupPositionError with the raw token after
\* it still in the stream.
C3_Witness ==
    /\ pc = "exited" /\ exit_kind = "GroupPositionError"
    /\ args = <<s_f, s_o>> /\ i = 0
    /\ pos < Len(arguments)

\* ---------------------------------------------------------------------- C4
\* A single-dash token with no value letter before its last position.
Groupable(tok) ==
    /\ starts_with(tok, <<"-">>)
    /\ ~starts_with(tok, <<"-", "-">>)
    /\ \A k \in 2..(Len(tok) - 1) : tok[k] \notin {"f", "o", "l"}

\* The argument list with token k replaced by one token per letter.
SplitAt(a, k) ==
    SubSeq(a, 1, k - 1)
      \o [j \in 1..(Len(a[k]) - 1) |-> <<"-", a[k][j + 1]>>]
      \o SubSeq(a, k + 1, Len(a))

Ended == pc \in {"done", "exited"}

\* C4 (as claimed): for every groupable token of the argument list, parse
\* ends the same way with the token split into its letters.
C4_Original ==
    Ended =>
      \A k \in 1..Len(arguments) :
        Groupable(arguments[k])
          => Outcome(State) = Outcome(Run(SplitAt(arguments, k), InitState))

\* C4 (amended): for every groupable token of the argument list that is not
\* pulled as the value of a value-consuming flag, parse ends the same way
\* (the same returned Args, or the same exit and code) with the token split
\* into its letters.
C4_GroupEquivalence ==
    Ended =>
      \A k \in 1..Len(arguments) :
        (Groupable(arguments[k]) /\ k \notin pulled)
          => Outcome(State) = Outcome(Run(SplitAt(arguments, k), InitState))

\* Witness: "-df" "a.shd" has returned, a group whose letters both took
\* effect.
C4_Witness ==
    /\ pc = "done"
    /\ arguments = <<s_df, s_a_shd, s_build>>
    /\ out.debug.value = TRUE /\ out.file.value = s_a_shd

\* ---------------------------------------------------------------------- C5
\* C5: a value-consuming flag dispatched last in its group with no raw
\* token left ends the process with MissingValue and exit code 1, assigning
\* no field; an ended process takes no further step.
C5_MissingValue ==
    [][ /\ (Dispatching /\ CurArg \in ValueFlags /\ LastOfGroup /\ ~HasNextRaw)
           => /\ ExitsWith("MissingValue")
              /\ out' = out /\ assigned' = assigned /\ pos' = pos
        /\ pc # "exited" ]_vars

\* Witness: a trailing "--output" has ended in MissingValue.
C5_Witness ==
    /\ pc = "exited" /\ exit_kind = "MissingValue" /\ exit_code = 1
    /\ args = <<s_output>>

\* ---------------------------------------------------------------------- C6
\* C6: for -l and --error-level, the pulled token sets the level by the
\* table f|fatal, e|error, w|warn, n|note, s|silent; any other token ends
\* the process with InvalidValue and exit code 1, the level unassigned.
C6_Severity ==
    [][ (Dispatching /\ CurArg \in {s_l, s_error_level}
           /\ LastOfGroup /\ HasNextRaw)
        => IF NextArg \in SeveritySpellings
           THEN /\ pc' = "handle"
                /\ out'.level.value = SeverityOf(NextArg)
                /\ "level" \in assigned'
           ELSE /\ ExitsWith("InvalidValue")
                /\ out' = out /\ assigned' = assigned ]_vars

\* Witness: "--error-level" "fatal" has returned with level Fatal.
C6_Witness ==
    /\ pc = "done"
    /\ arguments = <<s_error_level, s_fatal>>
    /\ out.level.value = "Fatal"

\* ---------------------------------------------------------------------- C7
\* The raw tokens, in order, that do not start with a dash and were not
\* pulled as a value, among the first n.
RECURSIVE PlainTokens(_, _, _)
PlainTokens(a, p, n) ==
    IF n = 0 THEN <<>>
    ELSE IF ~starts_with(a[n], <<"-">>) /\ n \notin p
         THEN Append(PlainTokens(a, p, n - 1), a[n])
         ELSE PlainTokens(a, p, n - 1)

\* The documented default of each option.
DefaultValue(f) ==
    CASE f = "file" -> s_main_shd
      [] f = "output" -> s_main_asm
      [] f = "debug" -> FALSE
      [] f = "code_context" -> TRUE
      [] f = "level" -> "Warn"

\* C7: a returned Args has as verbs exactly the raw tokens that neither
\* start with a dash nor were pulled as a value, in order, and the default
\* in every field that no flag assigned; a dispatched flag changes only its
\* own field and never verbs; and "-f" "a.shd" "build" "run" returns the
\* file "a.shd", the verbs build, run, and every other field at its default.
C7_VerbsAndFrame ==
    /\ []( pc = "done"
           => /\ out.verbs = PlainTokens(arguments, pulled, Len(arguments))
              /\ \A f \in OptionFields \ assigned :
                   out[f].value = DefaultValue(f) )
    /\ [][ Dispatching
           => /\ out'.verbs = out.verbs
              /\ \A g \in OptionFields \ {FieldOf(CurArg)} : out'[g] = out[g] ]_vars
    /\ []( (pc = "done" /\ arguments = <<s_f, s_a_shd, s_build, s_run>>)
           => /\ out.file.value = s_a_shd
              /\ out.verbs = <<s_build, s_run>>
              /\ \A f \in OptionFields \ {"file"} :
                   out[f].value = DefaultValue(f) )

\* Witness: the documented example has returned.
C7_Witness ==
    /\ pc = "done"
    /\ arguments = <<s_f, s_a_shd, s_build, s_run>>
    /\ out.verbs = <<s_build, s_run>>

\* ---------------------------------------------------------------------- C8
\* C8: dispatching -h, --help, -V or --version ends the process at that
\* point with exit code 0, with the cursor and the group index where they
\* were; an ended process takes no further step, so nothing after it is
\* examined and no Args is returned.
C8_ImmediateExit ==
    [][ /\ (Dispatching /\ CurArg \in ImmediateFlags)
           => /\ pc' = "exited" /\ exit_code' = 0
              /\ exit_kind' \in {"Usage", "Help", "Version"}
              /\ pos' = pos /\ i' = i /\ args' = args /\ out' = out
        /\ pc # "exited" ]_vars

\* Witness: "-hx" has ended with code 0 at its first letter, the unknown
\* letter after it and a following token unexamined.
C8_Witness ==
    /\ pc = "exited" /\ exit_code = 0
    /\ args = <<s_h, s_x>> /\ i = 0
    /\ pos < Len(arguments)

\* ---------------------------------------------------------------------- C9
\* A scanned dash-prefixed token whose handling dispatched nothing.
SkippedUndispatched == pc = "handle" /\ args = <<>>

\* The unrecognized-argument part of C9: dispatching an expanded token that
\* is no recognized spelling ends the process with UnrecognizedArgument and
\* exit code 1, and no verb starts with a dash.
C9_Unrecognized ==
    /\ [][ (Dispatching /\ CurArg \notin Recognized)
           => ExitsWith("UnrecognizedArgument") /\ out' = out ]_vars
    /\ [](\A k \in 1..Len(out.verbs) : ~starts_with(out.verbs[k], <<"-">>))

C10_EmptyDefaults ==
    arguments = <<>>
      => /\ pc # "exited" /\ exit_code = -1 /\ exit_kind = "none"
         /\ pc = "done"
              => out = [ file |-> [value |-> s_main_shd, set |-> FALSE],
                         output |-> [value |-> s_main_asm, set |-> FALSE],
                         debug |-> [value |-> FALSE, set |-> FALSE],
                         code_context |-> [value |-> TRUE, set |-> FALSE],
                         level |-> [value |-> "Warn", set |-> FALSE],
                         verbs |-> <<>> ]

\* Witness: parse of the empty list has returned.
C10_Witness == arguments = <<>> /\ pc = "done" /\ pos = 0

\* --------------------------------------------------------------------- C11
\* C11 (as claimed): whenever a raw token equal to "shark" is taken from the
\* stream, the process ends there with the banner and exit code 1.
C11_Original ==
    [][ (HasNextRaw /\ NextArg = s_shark /\ pos' = pos + 1)
        => (pc' = "exited" /\ exit_code' = 1 /\ exit_kind' = "Banner") ]_vars

\* C11 (amended): whenever the driver's scan takes a raw token equal to
\* "shark" (one not pulled as the value of a value-consuming flag), the
\* process ends there with the banner and exit code 1, no diagnostic being
\* reported and verbs left as they were; verbs never contains "shark"; and
\* "sharks" and "Shark" are appended to verbs like any other verb.
C11_SharkBanner ==
    /\ [][ (pc = "scan" /\ HasNextRaw /\ NextArg = s_shark)
           => /\ pc' = "exited" /\ exit_code' = 1 /\ exit_kind' = "Banner"
              /\ reports' = reports /\ out' = out ]_vars
    /\ [](\A k \in 1..Len(out.verbs) : out.verbs[k] # s_shark)
    /\ [][ (pc = "scan" /\ HasNextRaw /\ NextArg \in {s_sharks, s_Shark})
           => /\ pc' = "scan" /\ exit_kind' = "none"
              /\ out'.verbs = Append(out.verbs, NextArg) ]_vars

\* Witness: "shark" in third place, after a verb was accepted, has ended
\* the process with the banner.
C11_Witness ==
    /\ pc = "exited" /\ exit_kind = "Banner" /\ exit_code = 1
    /\ pos = 3 /\ arguments[3] = s_shark
    /\ Len(out.verbs) > 0

\* --------------------------------------------------------------------- C12
ErrorKinds ==
    { "DuplicateFlag", "GroupPositionError", "MissingValue", "InvalidValue",
      "UnrecognizedArgument" }

\* C12: an error is reported at most once per run, and a run in which one
\* was reported has ended with exit code 1 in that same step; a run that
\* has ended (returned, exit 0 or exit 1, exactly one of them) takes no
\* further step, so nothing after the failing token is processed and no
\* Args is returned after an error; a run that has not ended can go on.
C12_ErrorsTerminal ==
    /\ reports \in {0, 1}
    /\ (reports = 1) <=> (exit_kind \in ErrorKinds)
    /\ (exit_kind \in ErrorKinds) => (pc = "exited" /\ exit_code = 1)
    /\ (pc = "exited") <=> (exit_code \in {0, 1})
    /\ (pc = "exited" /\ exit_code = 0)
         => exit_kind \in {"Usage", "Help", "Version"}
    /\ (pc = "exited" /\ exit_code = 1)
         => exit_kind \in ErrorKinds \cup {"Banner"}
    /\ (pc # "exited") => (exit_code = -1 /\ exit_kind = "none")
    /\ Ended <=> ~(ENABLED Next)

\* Witness: an invalid level has been reported once and the run has ended
\* with tokens left unprocessed.
C12_Witness ==
    /\ pc = "exited" /\ exit_kind = "InvalidValue" /\ exit_code = 1
    /\ reports = 1
    /\ pos < Len(arguments)

\* --------------------------------------------------------------------- C13
\* C13: when the main scan loop has ended without an exit the shared cursor
\* is exhausted, and the drain pass returns the Args as the loop left it,
\* verbs included.
C13_DrainAddsNothing ==
    /\ [](pc = "drain" => pos = Len(arguments))
    /\ [][ pc = "drain" => (pc' = "done" /\ out' = out /\ pos' = pos) ]_vars

\* Witness: a run whose last token was pulled by -f inside handle_arg has
\* returned with the one verb the scan loop collected.
C13_Witness ==
    /\ pc = "done"
    /\ arguments = <<s_build, s_f, s_a_shd>>
    /\ pulled = {3}
    /\ out.verbs = <<s_build>>

\* --------------------------------------------------------------------- C14
LongValueFlags == {s_file, s_output, s_error_level}

\* C14: a scanned raw token that starts with two dashes becomes a group of
\* exactly that one token; a long value-consuming flag is therefore always
\* last in its group and never ends in GroupPositionError; and "--dh" and
\* "--d" are not handled as the letters d and h but end the process with
\* UnrecognizedArgument, no field changed.
C14_LongFlagsAtomic ==
    /\ [][ (pc = "scan" /\ HasNextRaw /\ starts_with(NextArg, <<"-", "-">>))
           => (pc' = "handle" /\ args' = <<NextArg>> /\ i' = 0) ]_vars
    /\ [][ (Dispatching /\ CurArg \in LongValueFlags)
           => (LastOfGroup /\ exit_kind' # "GroupPositionError") ]_vars
    /\ [][ (Dispatching /\ CurArg \in {s_dddh, s_ddd})
           => (ExitsWith("UnrecognizedArgument") /\ out' = out) ]_vars

\* Witness: "--dh" has ended the process as one unrecognized token, debug
\* untouched.
C14_Witness ==
    /\ pc = "exited" /\ exit_kind = "UnrecognizedArgument"
    /\ args = <<s_dddh>> /\ i = 0
    /\ out.debug.value = FALSE

\* --------------------------------------------------------------------- C15
\* C15: for a dispatched value-consuming flag the first failing check, in
\* the order group position, presence of a following raw token, severity
\* spelling (error-level flag only), try_mut's set test, decides the error;
\* the value token is pulled before the last two, so InvalidValue and
\* DuplicateFlag leave the cursor one further.  "-ld" with nothing after it
\* ends in GroupPositionError, and a second error-level flag with a bogus
\* value ends in InvalidValue.
C15_CheckOrder ==
    /\ [][ (Dispatching /\ CurArg \in ValueFlags)
           => IF ~LastOfGroup
              THEN ExitsWith("GroupPositionError") /\ pos' = pos
              ELSE IF ~HasNextRaw
              THEN ExitsWith("MissingValue") /\ pos' = pos
              ELSE IF FieldOf(CurArg) = "level"
                      /\ NextArg \notin SeveritySpellings
              THEN /\ ExitsWith("InvalidValue")
                   /\ pos' = pos + 1 /\ pulled' = pulled \cup {pos + 1}
              ELSE IF out[FieldOf(CurArg)].set
              THEN /\ ExitsWith("DuplicateFlag")
                   /\ pos' = pos + 1 /\ pulled' = pulled \cup {pos + 1}
              ELSE /\ pc' = "handle" /\ exit_kind' = "none"
                   /\ pos' = pos + 1 /\ pulled' = pulled \cup {pos + 1}
                   /\ FieldOf(CurArg) \in assigned' ]_vars
    /\ []( (arguments = <<s_ld>> /\ Ended)
           => exit_kind = "GroupPositionError" )
    /\ []( (arguments = <<s_l, s_lf, s_error_level, s_bogus>> /\ Ended)
           => exit_kind = "InvalidValue" )

\* Witness: the second error-level flag, given a bogus value after the
\* level was already assigned, has ended in InvalidValue with its value
\* pulled.
C15_Witness ==
    /\ pc = "exited" /\ exit_kind = "InvalidValue"
    /\ arguments = <<s_l, s_lf, s_error_level, s_bogus>>
    /\ "level" \in assigned
    /\ pulled = {2, 4}

\* --------------------------------------------------------------------- C16
PathFlags == {s_f, s_file, s_o, s_output}

\* C16 (as claimed): a value-consuming flag, last in its group with a raw
\* token following, pulls that token, raises no error, takes no exit and
\* leaves verbs alone, whatever the token is; -f and -o store it verbatim.
C16_Original ==
    [][ (Dispatching /\ CurArg \in ValueFlags /\ LastOfGroup /\ HasNextRaw)
        => /\ pc' = "handle" /\ exit_kind' = "none"
           /\ pos' = pos + 1 /\ pulled' = pulled \cup {pos + 1}
           /\ out'.verbs = out.verbs
           /\ (CurArg \in PathFlags => out'[FieldOf(CurArg)].value = NextArg) ]_vars

\* C16 (amended): a value-consuming flag, last in its group with a raw
\* token following, pulls that token whatever it is, and the token is never
\* scanned by the driver: it is not dispatched, sets off no immediate
\* action and no banner, and is not appended to verbs.  -f, --file, -o and
\* --output store it verbatim and raise no error; -l and --error-level
\* store the severity it spells and end in InvalidValue when it spells
\* none.  The scan goes on with the token after it.
C16_ValueVerbatim ==
    /\ [][ (Dispatching /\ CurArg \in ValueFlags /\ LastOfGroup /\ HasNextRaw)
           => /\ pos' = pos + 1 /\ pulled' = pulled \cup {pos + 1}
              /\ out'.verbs = out.verbs
              /\ IF CurArg \in PathFlags
                 THEN /\ pc' = "handle" /\ exit_kind' = "none"
                      /\ out'[FieldOf(CurArg)].value = NextArg
                 ELSE IF NextArg \in SeveritySpellings
                 THEN /\ pc' = "handle" /\ exit_kind' = "none"
                      /\ out'.level.value = SeverityOf(NextArg)
                 ELSE ExitsWith("InvalidValue") ]_vars
    /\ [][ (pc = "scan" /\ HasNextRaw) => (pos + 1) \notin pulled ]_vars
    /\ []( (arguments = <<s_f, s_help>> /\ Ended)
           => (pc = "done" /\ out.file.value = s_help /\ out.verbs = <<>>) )
    /\ []( (arguments = <<s_o, s_d>> /\ Ended)
           => /\ pc = "done" /\ out.output.value = s_d
              /\ out.debug.value = FALSE /\ out.verbs = <<>> )
    /\ []( (arguments = <<s_f, s_shark, s_build>> /\ Ended)
           => /\ pc = "done" /\ out.file.value = s_shark
              /\ out.verbs = <<s_build>> )

\* Witness: "-f" "shark" "build" has returned with the file "shark" and the
\* one verb after it.
C16_Witness ==
    /\ pc = "done"
    /\ arguments = <<s_f, s_shark, s_build>>
    /\ out.file.value = s_shark
    /\ out.verbs = <<s_build>>

\* --------------------------------------------------------------------- C17
\* C17: a scanned "-" becomes an empty group: nothing is dispatched, the
\* group-length-minus-one of is_end is computed only for a non-empty group,
\* and handle_arg returns to the scan with every field, every set flag and
\* verbs as they were, no report and no exit.
C17_BareDashNoOp ==
    /\ [][ (pc = "scan" /\ HasNextRaw /\ NextArg = s_dash)
           => /\ pc' = "handle" /\ args' = <<>> /\ pos' = pos + 1
              /\ out' = out /\ exit_kind' = "none" ]_vars
    /\ [][ SkippedUndispatched
           => /\ pc' = "scan" /\ pos' = pos
              /\ out' = out /\ assigned' = assigned
              /\ reports' = reports /\ exit_kind' = "none" ]_vars
    /\ [](Dispatching => Len(args) - 1 >= 0)
    /\ []( (arguments = <<s_dash>> /\ Ended)
           => (pc = "done" /\ out.verbs = <<>> /\ assigned = {}) )

\* Witness: "-" "build" has returned with the verb and nothing assigned.
C17_Witness ==
    /\ pc = "done"
    /\ arguments = <<s_dash, s_build>>
    /\ out.verbs = <<s_build>>
    /\ assigned = {}

\* --------------------------------------------------------------------- C18
\* The tokens still in the stream, and the steps left in the current
\* position of parse.
Remaining == Len(arguments) - pos
Local ==
    CASE pc = "handle" -> (Len(args) - i) + 3
      [] pc = "scan" -> 2
      [] pc = "drain" -> 1
      [] OTHER -> 0

\* The dash-prefixed raw tokens that were not pulled as a value.
ScannedFlags ==
    { k \in (1..Len(arguments)) \ pulled : starts_with(arguments[k], <<"-">>) }

\* C18: every step of parse lowers the pair (tokens left in the stream,
\* steps left at the current position), and a run that has not ended can
\* step, so parse ends on every argument list.  The cursor moves forward
\* one token at a time; a token is taken either by the driver's scan or as
\* a value, a value only by the last element of a group, so at most one per
\* handle_arg call; and a returned Args has as many verbs as there are
\* tokens neither scanned as dash-prefixed nor pulled as a value.
C18_TerminationAndCursor ==
    /\ [][ /\ \/ Remaining' < Remaining
              \/ (Remaining' = Remaining /\ Local' < Local)
           /\ pos' \in {pos, pos + 1}
           /\ (pos' = pos + 1)
                => \/ (pc = "scan" /\ pulled' = pulled)
                   \/ (Dispatching /\ LastOfGroup /\ CurArg \in ValueFlags
                         /\ pulled' = pulled \cup {pos + 1})
           /\ (pos' = pos) => (pulled' = pulled) ]_vars
    /\ []( /\ pos \in 0..Len(arguments)
           /\ pulled \subseteq 1..pos
           /\ Local >= 0
           /\ Dispatching => pos \notin pulled
           /\ ~Ended => ENABLED Next )
    /\ []( pc = "done"
           => /\ pos = Len(arguments)
              /\ Len(out.verbs) + Cardinality(ScannedFlags) + Cardinality(pulled)
                   = Len(arguments) )

\* Witness: "-df" "a.shd" "run" has returned: one token scanned as a flag
\* group, one pulled as its value, one verb.
C18_Witness ==
    /\ pc = "done"
    /\ arguments = <<s_df, s_a_shd, s_run>>
    /\ pulled = {2} /\ pos = 3
    /\ out.verbs = <<s_run>>

====
